---- MODULE Spec2Model ----
(***************************************************************************)
(* Route-template compiler of Rocket's codegen crate:                      *)
(*   src/core/codegen/src/attribute/segments.rs  (Segment, subspan,        *)
(*       trailspan, into_diagnostic, parse_segments)                       *)
(*   src/core/codegen/src/http_codegen.rs        (RoutePath::from_meta)    *)
(*                                                                         *)
(* Text is a sequence of one-character strings.  A `&str` that borrows     *)
(* from a haystack is a slice [off, len]: `off` is the difference of the   *)
(* two `as_ptr()` values, `len` is `len()`.  A Span is a half-open range   *)
(* [lo, hi) of source offsets.                                             *)
(***************************************************************************)
EXTENDS Integers, Sequences, FiniteSets, TLC

VARIABLES
    pc,         \* control position of the running call
    origin,     \* from_meta: the normalized Origin, [path, query]
    value_span, \* from_meta: meta.value_span()
    path_res,   \* from_meta: `path`, the result of the first parse_segments
    query_res,  \* from_meta: `query`, the transposed result of the closure
    result,     \* value returned by the outermost call
    string,     \* parse_segments: argument `string`
    sep,        \* parse_segments: argument `sep`
    source,     \* parse_segments: argument `source`
    span,       \* parse_segments: argument `span`
    iter,       \* parse_segments: the parse_many iterator driven by `for`
    segments,   \* parse_segments: `segments`
    diags,      \* parse_segments: `diags`
    calls,      \* history: the parse_segments calls made so far
    fn_in,      \* arguments of the pure function under test
    fn_out      \* its results

vars == << pc, origin, value_span, path_res, query_res, result, string, sep,
           source, span, iter, segments, diags, calls, fn_in, fn_out >>

None == [none |-> TRUE]

-----------------------------------------------------------------------------
(* Bounds of the model *)

MaxPieces == 3

MaxPathPieces == 2

MaxQueryPieces == 3

MaxSpanLo == 1

MaxHay == 4

-----------------------------------------------------------------------------
(* Text helpers (str::starts_with, ends_with, contains, split) *)

StartsWith(s, p) == Len(s) >= Len(p) /\ SubSeq(s, 1, Len(p)) = p

EndsWith(s, p) == Len(s) >= Len(p) /\ SubSeq(s, Len(s) - Len(p) + 1, Len(s)) = p

Contains(s, p) == \E i \in 0..(Len(s) - Len(p)) : SubSeq(s, i + 1, i + Len(p)) = p

SliceText(haystack, sl) == SubSeq(haystack, sl.off + 1, sl.off + sl.len)

RECURSIVE SplitAt(_, _, _, _)
SplitAt(s, c, start, i) ==
    IF i > Len(s) THEN << [off |-> start, len |-> Len(s) - start] >>
    ELSE IF s[i] = c
         THEN << [off |-> start, len |-> i - 1 - start] >> \o SplitAt(s, c, i, i + 1)
         ELSE SplitAt(s, c, start, i + 1)

\* str::split(sep): the slices between separators, empty ones included.
Split(s, c) == SplitAt(s, c, 0, 1)

RECURSIVE NonEmpty(_)
NonEmpty(sls) ==
    IF sls = << >> THEN << >>
    ELSE IF Head(sls).len = 0 THEN NonEmpty(Tail(sls))
         ELSE << Head(sls) >> \o NonEmpty(Tail(sls))

RECURSIVE Join(_, _)
Join(texts, c) ==
    IF texts = << >> THEN << >>
    ELSE IF Len(texts) = 1 THEN texts[1]
         ELSE texts[1] \o << c >> \o Join(Tail(texts), c)

-----------------------------------------------------------------------------
(* Segment Grammar: http::route::RouteSegment::parse_one *)

AlphaChars == {"a", "b", "c"}

DigitChars == {"1"}

ForbiddenChars == {"%", "+"}

IsValidIdent(name) ==
    /\ name # << >>
    /\ name[1] \in AlphaChars \cup {"_"}
    /\ \A i \in 2..Len(name) : name[i] \in AlphaChars \cup DigitChars \cup {"_"}

HasBracket(s) == \E i \in 1..Len(s) : s[i] \in {"<", ">"}

PErr(kind, noff, nlen) == [ok |-> FALSE, error |-> kind, noff |-> noff, nlen |-> nlen]

\* The result is relative to the piece: noff/nlen locate the name inside it.
ParseOne(seg) ==
    IF seg = << >> THEN PErr("Empty", 0, 0)
    ELSE IF Len(seg) >= 2 /\ seg[1] = "<" /\ seg[Len(seg)] = ">"
    THEN LET content == SubSeq(seg, 2, Len(seg) - 1)
             multi   == EndsWith(content, << ".", "." >>)
             name    == IF multi THEN SubSeq(content, 1, Len(content) - 2)
                                 ELSE content
         IN  IF HasBracket(content) THEN PErr("Malformed", 0, 0)
             ELSE IF name = << >> THEN PErr("Empty", 0, 0)
             ELSE IF ~IsValidIdent(name) THEN PErr("Ident", 1, Len(name))
             ELSE IF name = << "_" >> THEN PErr("Ignored", 0, 0)
             ELSE [ok |-> TRUE, kind |-> IF multi THEN "Multi" ELSE "Single",
                   name |-> name, noff |-> 1, nlen |-> Len(name)]
    ELSE IF seg[1] = "<" /\ ~HasBracket(Tail(seg)) THEN PErr("MissingClose", 0, 0)
    ELSE IF HasBracket(seg) THEN PErr("Malformed", 0, 0)
    ELSE IF \E i \in 1..Len(seg) : seg[i] \in ForbiddenChars THEN PErr("Uri", 0, 0)
    ELSE [ok |-> TRUE, kind |-> "Static", name |-> seg, noff |-> 0, nlen |-> Len(seg)]

-----------------------------------------------------------------------------
(* Span Mapper: Span::subspan, subspan, trailspan *)

Slice(off, len) == [off |-> off, len |-> len]

MkSpan(lo, hi) == [lo |-> lo, hi |-> hi]

\* Span::subspan(a..b): the part [a, b) of the span, None when out of range.
SpanSubspan(sp, a, b) ==
    IF 0 <= a /\ a <= b /\ b <= sp.hi - sp.lo
    THEN MkSpan(sp.lo + a, sp.lo + b)
    ELSE None

\* Span::subspan(a..): from a to the end of the span.
SpanSubspanFrom(sp, a) == SpanSubspan(sp, a, sp.hi - sp.lo)

\* First offset at which the needle's text occurs in the haystack.
FirstOccurrence(needle, haystack) ==
    LET text == SliceText(haystack, needle)
        hits == {i \in 0..(Len(haystack) - needle.len) :
                    SubSeq(haystack, i + 1, i + needle.len) = text}
    IN  CHOOSE i \in hits : \A j \in hits : i <= j

\* Variant of subspan: the range of the first occurrence of the needle's text.
SubspanBySearch(needle, haystack, sp) ==
    LET index == FirstOccurrence(needle, haystack)
    IN  SpanSubspan(sp, index, index + needle.len)

subspan(needle, haystack, sp) ==
    LET index == needle.off
    IN  SpanSubspan(sp, index, index + needle.len)

\* Variant of trailspan: always from the needle's own first byte.
TrailspanFromNeedle(needle, haystack, sp) ==
    SpanSubspanFrom(sp, needle.off)

trailspan(needle, haystack, sp) ==
    LET index == needle.off
    IN  IF needle.off > 0
        THEN SpanSubspanFrom(sp, index - 1)
        ELSE SpanSubspanFrom(sp, index)

-----------------------------------------------------------------------------
(* Segment and its name-keyed identity *)

Kinds == {"Static", "Single", "Multi"}

Sources == {"Unknown", "Path", "Query", "Data"}

\* Variant of Segment::from: the kind is not carried over.
SegmentFromStaticKind(segment, sp) ==
    [span |-> sp, kind |-> "Static", source |-> segment.source,
     index |-> segment.index, name |-> segment.name]

\* Segment::from(segment, span)
SegmentFrom(segment, sp) ==
    [span |-> sp, kind |-> segment.kind, source |-> segment.source,
     index |-> segment.index, name |-> segment.name]

\* Variant of eq: the derived, field-by-field comparison.
SegmentEqAllFields(a, b) == a = b

\* impl PartialEq for Segment
SegmentEq(a, b) == a.name = b.name

\* impl Hash for Segment: the hasher is the sequence of what was written to
\* it; str::hash writes the bytes and then the byte 0xff.
SegmentHash(a, state) == state \o a.name \o << "0xff" >>

-----------------------------------------------------------------------------
(* Diagnostic Formatter: into_diagnostic.  Message texts are written without
   the back quotes of the source. *)

Diag(sp, msg, arg, help, note) ==
    [span |-> sp, msg |-> msg, arg |-> arg, help |-> help, note |-> note]

TrailingMsg == "unexpected trailing text after a '..' param"

EmptyQueryMsg == "query cannot contain empty segments"

into_diagnostic(segment, src, sp, error) ==
    LET seg_span == subspan(segment, src, sp)
    IN  CASE error.kind = "Empty" ->
               Diag(seg_span, "parameter names cannot be empty", << >>, << >>, None)
          [] error.kind = "Ident" ->
               Diag(seg_span, "{} is not a valid identifier",
                    SliceText(src, error.arg),
                    << "parameter names must be valid identifiers" >>, None)
          [] error.kind = "Ignored" ->
               Diag(seg_span, "parameters must be named", << >>,
                    << "use a name such as _guard or _param" >>, None)
          [] error.kind = "MissingClose" ->
               Diag(seg_span, "parameter is missing a closing bracket",
                    SliceText(src, segment), << "did you mean '{}>'?" >>, None)
          [] error.kind = "Malformed" ->
               Diag(seg_span, "malformed parameter or identifier", << >>,
                    << "parameters must be of the form '<param>'",
                       "identifiers cannot contain '<' or '>'" >>, None)
          [] error.kind = "Uri" ->
               Diag(seg_span, "component contains invalid URI characters", << >>,
                    << "components cannot contain '%' and '+' characters" >>, None)
          [] error.kind = "Trailing" ->
               LET multi_span == subspan(error.arg, src, sp)
               IN  Diag(trailspan(segment, src, sp), TrailingMsg, << >>,
                        << "a multi-segment param must be the final component" >>,
                        multi_span)

\* An `expect` of into_diagnostic failed.
DiagPanics(d) == d.span = None \/ (d.msg = TrailingMsg /\ d.note = None)

-----------------------------------------------------------------------------
(* Segment Splitter: http::route::RouteSegment::parse_many, as an iterator.
   The empty pieces of the split are skipped (the path of an origin starts
   with the separator), and once a Multi piece was seen every later piece is
   answered with Trailing; whether the caller goes on is the caller's choice. *)

ParseManyNew(s, c) == [rest |-> NonEmpty(Split(s, c)), last_multi_seg |-> None]

\* The item the iterator yields next: Ok(RouteSegment) or Err((piece, error)).
ParseManyItem(s, it, src) ==
    LET seg == Head(it.rest)
        p   == ParseOne(SliceText(s, seg))
    IN  IF it.last_multi_seg # None
        THEN [ok |-> FALSE, seg |-> seg,
              error |-> [kind |-> "Trailing", arg |-> it.last_multi_seg]]
        ELSE IF p.ok
        THEN [ok |-> TRUE,
              segment |-> [string |-> seg, kind |-> p.kind, source |-> src,
                           name |-> p.name, index |-> None]]
        ELSE [ok |-> FALSE, seg |-> seg,
              error |-> [kind |-> p.error,
                         arg |-> IF p.error = "Ident"
                                 THEN Slice(seg.off + p.noff, p.nlen)
                                 ELSE None]]

\* The iterator after it yielded that item.
ParseManyAdvance(s, it) ==
    LET seg == Head(it.rest)
        p   == ParseOne(SliceText(s, seg))
    IN  [rest |-> Tail(it.rest),
         last_multi_seg |->
            IF it.last_multi_seg = None /\ p.ok /\ p.kind = "Multi"
            THEN Slice(seg.off + p.noff, p.nlen)
            ELSE it.last_multi_seg]

-----------------------------------------------------------------------------
(* parse_segments *)

Ok(v) == [ok |-> TRUE, val |-> v]

Err(ds) == [ok |-> FALSE, diags |-> ds]

\* Diagnostics::err_or
ErrOr(ds, v) == IF ds = << >> THEN Ok(v) ELSE Err(ds)

\* Variant: the loop stops at the first error of any kind.
BreakOnAnyError(error) == TRUE

\* Variant: the loop never stops early.
BreakOnNoError(error) == FALSE

\* `if let Error::Trailing(..) = error { break; }`
BreakOn(error) == error.kind = "Trailing"

\* Entry of parse_segments(s, c, src, sp); the `for` loop is entered at
\* `loop_pc` unless the iterator is empty from the start.
CallParseSegments(loop_pc, ret_pc, s, c, src, sp) ==
    /\ string' = s
    /\ sep' = c
    /\ source' = src
    /\ span' = sp
    /\ iter' = ParseManyNew(s, c)
    /\ segments' = << >>
    /\ diags' = << >>
    /\ calls' = Append(calls, [string |-> s, sep |-> c, source |-> src, span |-> sp])
    /\ pc' = IF ParseManyNew(s, c).rest = << >> THEN ret_pc ELSE loop_pc

\* Variant: the segment is inserted at the front.
PushSegmentFront(segs, s) == << s >> \o segs

\* `segments.push(..)`
PushSegment(segs, s) == Append(segs, s)

LoopPcs == {"seg_loop", "path_loop", "query_loop"}

AfterLoop(at) ==
    CASE at = "seg_loop" -> "seg_ret"
      [] at = "path_loop" -> "path_ret"
      [] at = "query_loop" -> "query_ret"

\* One iteration of the `for` loop.
SegStep ==
    /\ pc \in LoopPcs
    /\ iter.rest # << >>
    /\ LET item == ParseManyItem(string, iter, source)
           next == ParseManyAdvance(string, iter)
       IN  IF ~item.ok
           THEN LET d == into_diagnostic(item.seg, string, span, item.error)
                IN  /\ diags' = Append(diags, d)
                    /\ segments' = segments
                    /\ iter' = next
                    /\ pc' = IF DiagPanics(d) THEN "panic"
                             ELSE IF BreakOn(item.error) \/ next.rest = << >>
                                  THEN AfterLoop(pc) ELSE pc
           ELSE LET seg_span == subspan(item.segment.string, string, span)
                IN  /\ segments' = PushSegment(segments, SegmentFrom(item.segment, seg_span))
                    /\ diags' = diags
                    /\ iter' = next
                    /\ pc' = IF seg_span = None THEN "panic"
                             ELSE IF next.rest = << >> THEN AfterLoop(pc) ELSE pc
    /\ UNCHANGED << origin, value_span, path_res, query_res, result, string, sep,
                    source, span, calls, fn_in, fn_out >>

\* `diags.err_or(segments)` returned to a direct caller.
SegReturn ==
    /\ pc = "seg_ret"
    /\ result' = ErrOr(diags, segments)
    /\ pc' = "done"
    /\ UNCHANGED << origin, value_span, path_res, query_res, string, sep, source,
                    span, iter, segments, diags, calls, fn_in, fn_out >>

-----------------------------------------------------------------------------
(* Inputs *)

PieceVocab ==
    { << >>, << "a" >>, << "<", "a", ">" >>, << "<", "b", ".", ".", ">" >>,
      << "<", ">" >>, << "<", "_", ">" >>, << "<", "1", ">" >>, << "<", "a" >>,
      << "a", ">" >>, << "%" >> }

\* The texts made of at most n pieces of the vocabulary joined by c.
Texts(vocab, n, c) == { Join(f, c) : f \in UNION { [1..k -> vocab] : k \in 0..n } }

SpanLos == {0, MaxSpanLo}

Idle ==
    /\ origin = None
    /\ value_span = None
    /\ path_res = None
    /\ query_res = None
    /\ result = None
    /\ fn_in = None
    /\ fn_out = None

NoCall ==
    /\ string = << >>
    /\ sep = "/"
    /\ source = "Unknown"
    /\ span = None
    /\ iter = [rest |-> << >>, last_multi_seg |-> None]
    /\ segments = << >>
    /\ diags = << >>
    /\ calls = << >>

-----------------------------------------------------------------------------
(* Specification of one parse_segments call on any string *)

SplitConfigs == { [sep |-> "/", source |-> "Path"], [sep |-> "&", source |-> "Query"] }

InitSegments ==
    /\ Idle
    /\ \E cfg \in SplitConfigs, lo \in SpanLos :
         \E s \in Texts(PieceVocab, MaxPieces, cfg.sep) :
            /\ string = s
            /\ sep = cfg.sep
            /\ source = cfg.source
            /\ span = MkSpan(lo, lo + Len(s))
            /\ iter = ParseManyNew(s, cfg.sep)
            /\ segments = << >>
            /\ diags = << >>
            /\ calls = << [string |-> s, sep |-> cfg.sep, source |-> cfg.source,
                           span |-> MkSpan(lo, lo + Len(s))] >>
            /\ pc = IF ParseManyNew(s, cfg.sep).rest = << >> THEN "seg_ret"
                    ELSE "seg_loop"

NextSegments == SegStep \/ SegReturn

SpecSegments == InitSegments /\ [][NextSegments]_vars

-----------------------------------------------------------------------------
(* Route Path Assembler: RoutePath::from_meta *)

PathVocab ==
    { << >>, << "a" >>, << "<", "a", ">" >>, << "<", "b", ".", ".", ">" >>,
      << "<", ">" >> }

QueryVocab == { << >>, << "a" >>, << "<", "b", ".", ".", ">" >> }

\* The path of a parsed origin URI starts with '/'.
OriginPaths == { << "/" >> \o t : t \in Texts(PathVocab, MaxPathPieces, "/") }

OriginQueries ==
    {None} \cup { [some |-> Join(f, "&")] :
                    f \in UNION { [1..k -> QueryVocab] : k \in 1..MaxQueryPieces } }

\* The literal's text between its quotes.
OriginText(o) ==
    IF o.query = None THEN o.path ELSE o.path \o << "?" >> \o o.query.some

\* Origin::is_normalized: no empty path segment, no redundant separator.
IsNormalized(path) ==
    /\ StartsWith(path, << "/" >>)
    /\ ~Contains(path, << "/", "/" >>)
    /\ ~(Len(path) > 1 /\ EndsWith(path, << "/" >>))

\* Origin::to_normalized, the path part.
ToNormalized(path) ==
    LET ps == NonEmpty(Split(path, "/"))
    IN  << "/" >> \o Join([k \in 1..Len(ps) |-> SliceText(path, ps[k])], "/")

\* A failed from_meta: the diagnostics emitted on the way and the one returned.
Failed(emitted, head) == [ok |-> FALSE, emitted |-> emitted, head |-> head]

\* Everything a failed from_meta reports, in order.
Report(r) == r.emitted \o << r.head >>

\* Diagnostics::emit_head
EmitHead(ds) == Failed(SubSeq(ds, 1, Len(ds) - 1), ds[Len(ds)])

\* Diagnostics::join
DiagsJoin(d1, d2) == d1 \o d2

\* Variant: the check of the last character is missing.
RejectsQueryNoEnd(q) ==
    StartsWith(q, << "&" >>) \/ Contains(q, << "&", "&" >>)

\* Variant: the check of the first character is missing.
RejectsQueryNoStart(q) ==
    Contains(q, << "&", "&" >>) \/ EndsWith(q, << "&" >>)

\* `q.starts_with('&') || q.contains("&&") || q.ends_with('&')`
RejectsQuery(q) ==
    StartsWith(q, << "&" >>) \/ Contains(q, << "&", "&" >>) \/ EndsWith(q, << "&" >>)

\* Variant: when both halves fail only the path half is reported.
MergeFirstOnly(o, p, q) ==
    IF p.ok /\ q.ok THEN Ok([origin |-> o, path |-> p.val, query |-> q.val])
    ELSE IF ~p.ok THEN EmitHead(p.diags)
    ELSE EmitHead(q.diags)

\* `match (path, query) { ... }`
Merge(o, p, q) ==
    IF p.ok /\ q.ok THEN Ok([origin |-> o, path |-> p.val, query |-> q.val])
    ELSE IF ~p.ok /\ q.ok THEN EmitHead(p.diags)
    ELSE IF p.ok /\ ~q.ok THEN EmitHead(q.diags)
    ELSE EmitHead(DiagsJoin(p.diags, q.diags))

\* Option::transpose of Some(r)
TransposeSome(r) == IF r.ok THEN Ok([some |-> r.val]) ELSE r

\* Origin::from_meta, then the split of the path part.
FromMetaPath ==
    /\ pc = "from_meta"
    /\ IF ~IsNormalized(origin.path)
       THEN /\ result' = Failed(<< >>,
                            Diag(value_span, "paths cannot contain empty segments",
                                 ToNormalized(origin.path), << >>, None))
            /\ pc' = "done"
            /\ UNCHANGED << string, sep, source, span, iter, segments, diags, calls >>
       ELSE LET path_span == SpanSubspan(value_span, 1, Len(origin.path) + 1)
            IN  IF path_span = None
                THEN /\ pc' = "panic"
                     /\ UNCHANGED << result, string, sep, source, span, iter,
                                     segments, diags, calls >>
                ELSE /\ CallParseSegments("path_loop", "path_ret", origin.path,
                                          "/", "Path", path_span)
                     /\ UNCHANGED result
    /\ UNCHANGED << origin, value_span, path_res, query_res, fn_in, fn_out >>

\* parse_segments returns `path`.
PathReturn ==
    /\ pc = "path_ret"
    /\ path_res' = ErrOr(diags, segments)
    /\ pc' = "query"
    /\ UNCHANGED << origin, value_span, query_res, result, string, sep, source,
                    span, iter, segments, diags, calls, fn_in, fn_out >>

\* The closure mapped over `origin.0.query()`.
FromMetaQuery ==
    /\ pc = "query"
    /\ IF origin.query = None
       THEN /\ query_res' = Ok(None)
            /\ pc' = "merge"
            /\ UNCHANGED << string, sep, source, span, iter, segments, diags, calls >>
       ELSE LET q == origin.query.some
                len_to_q == 1 + Len(origin.path) + 1
                end_of_q == len_to_q + Len(q)
                query_span == SpanSubspan(value_span, len_to_q, end_of_q)
            IN  IF query_span = None
                THEN /\ pc' = "panic"
                     /\ UNCHANGED << query_res, string, sep, source, span, iter,
                                     segments, diags, calls >>
                ELSE IF RejectsQuery(q)
                THEN /\ query_res' = Err(<< Diag(query_span, EmptyQueryMsg, << >>,
                                                 << >>, None) >>)
                     /\ pc' = "merge"
                     /\ UNCHANGED << string, sep, source, span, iter, segments,
                                     diags, calls >>
                ELSE /\ CallParseSegments("query_loop", "query_ret", q, "&",
                                          "Query", query_span)
                     /\ UNCHANGED query_res
    /\ UNCHANGED << origin, value_span, path_res, result, fn_in, fn_out >>

\* parse_segments returns inside the closure; `transpose` of Some(result).
QueryReturn ==
    /\ pc = "query_ret"
    /\ query_res' = TransposeSome(ErrOr(diags, segments))
    /\ pc' = "merge"
    /\ UNCHANGED << origin, value_span, path_res, result, string, sep, source,
                    span, iter, segments, diags, calls, fn_in, fn_out >>

FromMetaMerge ==
    /\ pc = "merge"
    /\ result' = Merge(origin, path_res, query_res)
    /\ pc' = "done"
    /\ UNCHANGED << origin, value_span, path_res, query_res, string, sep, source,
                    span, iter, segments, diags, calls, fn_in, fn_out >>

Init ==
    /\ pc = "from_meta"
    /\ \E p \in OriginPaths, q \in OriginQueries, lo \in SpanLos :
         /\ origin = [path |-> p, query |-> q]
         /\ value_span = MkSpan(lo, lo + Len(OriginText([path |-> p, query |-> q])) + 2)
    /\ path_res = None
    /\ query_res = None
    /\ result = None
    /\ fn_in = None
    /\ fn_out = None
    /\ NoCall

Next ==
    \/ FromMetaPath
    \/ SegStep
    \/ PathReturn
    \/ FromMetaQuery
    \/ QueryReturn
    \/ FromMetaMerge

Spec == Init /\ [][Next]_vars

-----------------------------------------------------------------------------
(* Specifications of the pure functions *)

SegmentValues ==
    [span : {MkSpan(0, 1), MkSpan(2, 4)}, kind : Kinds, source : Sources,
     index : {None, [some |-> 0]}, name : {<< "a" >>, << "b" >>, << "a", "b" >>}]

InitEq ==
    /\ pc = "eq"
    /\ origin = None /\ value_span = None /\ path_res = None
    /\ query_res = None /\ result = None
    /\ NoCall
    /\ fn_in \in [a : SegmentValues, b : SegmentValues]
    /\ fn_out = None

\* a == b, and both hashed by a fresh hasher.
SegmentCompare ==
    /\ pc = "eq"
    /\ fn_out' = [eq |-> SegmentEq(fn_in.a, fn_in.b),
                  hash_a |-> SegmentHash(fn_in.a, << >>),
                  hash_b |-> SegmentHash(fn_in.b, << >>)]
    /\ pc' = "done"
    /\ UNCHANGED << origin, value_span, path_res, query_res, result, string, sep,
                    source, span, iter, segments, diags, calls, fn_in >>

SpecEq == InitEq /\ [][SegmentCompare]_vars

HayTexts == UNION { [1..n -> {"a", "/"}] : n \in 0..MaxHay }

InitSpan ==
    /\ pc = "span"
    /\ origin = None /\ value_span = None /\ path_res = None
    /\ query_res = None /\ result = None
    /\ NoCall
    /\ \E h \in HayTexts, lo \in SpanLos :
         \E off \in 0..Len(h) :
            \E len \in 0..(Len(h) - off) :
               fn_in = [needle |-> Slice(off, len), haystack |-> h,
                        span |-> MkSpan(lo, lo + Len(h))]
    /\ fn_out = None

\* subspan and trailspan of a slice of the haystack.
SpanApply ==
    /\ pc = "span"
    /\ fn_out' = [sub |-> subspan(fn_in.needle, fn_in.haystack, fn_in.span),
                  trail |-> trailspan(fn_in.needle, fn_in.haystack, fn_in.span)]
    /\ pc' = "done"
    /\ UNCHANGED << origin, value_span, path_res, query_res, result, string, sep,
                    source, span, iter, segments, diags, calls, fn_in >>

SpecSpan == InitSpan /\ [][SpanApply]_vars

-----------------------------------------------------------------------------
(* Properties of parse_segments *)

\* The non-empty pieces of the string being split, in order.
Pieces == NonEmpty(Split(string, sep))

PieceParse(i) == ParseOne(SliceText(string, Pieces[i]))

\* The source range of piece i: its own bytes inside `span`.
PieceSpan(i) ==
    MkSpan(span.lo + Pieces[i].off, span.lo + Pieces[i].off + Pieces[i].len)

\* Piece i is graded by the grammar and fails it.  A piece that follows a
\* Multi piece is not graded: parse_many answers Trailing for it.
FailsGrammar(i) ==
    /\ \A j \in 1..(i - 1) : ~(PieceParse(j).ok /\ PieceParse(j).kind = "Multi")
    /\ ~PieceParse(i).ok

Failing == { i \in 1..Len(Pieces) : FailsGrammar(i) }

\* The k-th failing piece, in piece order.
NthFailing(k) == CHOOSE i \in Failing : Cardinality({ j \in Failing : j <= i }) = k

NotTrailing(d) == d.msg # TrailingMsg

TrailingSeen == diags # << >> /\ diags[Len(diags)].msg = TrailingMsg

\* C1: parse_segments accumulates per-piece errors: every piece that fails the
\* grammar with an error other than Trailing contributes exactly one
\* diagnostic, located at that piece, in piece order, the pieces after a
\* failing one being examined too; the call returns the segments only when no
\* piece failed and otherwise returns all the collected diagnostics.
C1_ErrorsAccumulate ==
    pc = "done" =>
        IF result.ok
        THEN /\ Failing = {}
             /\ diags = << >>
             /\ result.val = segments
             /\ Len(segments) = Len(Pieces)
        ELSE /\ result.diags = diags
             /\ LET nt == SelectSeq(diags, NotTrailing)
                IN  /\ Len(nt) = Cardinality(Failing)
                    /\ \A k \in 1..Len(nt) : nt[k].span = PieceSpan(NthFailing(k))

C1_Witness ==
    /\ pc = "done"
    /\ ~result.ok
    /\ Len(result.diags) >= 2
    /\ \A k \in 1..Len(result.diags) : NotTrailing(result.diags[k])
    /\ Len(Pieces) > Len(result.diags)

\* C2: once a piece yielded a Trailing error, its diagnostic is the last item
\* produced for the string: it stays the last diagnostic, every segment lies
\* before it, and no later step adds a segment or a diagnostic.
C2_TrailingIsLast ==
    /\ [](\A k \in 1..Len(diags) :
            diags[k].msg = TrailingMsg =>
               /\ k = Len(diags)
               /\ \A n \in 1..Len(segments) : segments[n].span.hi <= diags[k].span.lo)
    /\ [][TrailingSeen => (diags' = diags /\ segments' = segments)]_vars

C2_Witness ==
    /\ pc = "done"
    /\ TrailingSeen
    /\ iter.rest # << >>
    /\ Len(diags) = 1
    /\ segments # << >>

\* C3: in a segment sequence that parse_segments returns successfully, a
\* Multi segment can only be the last element.
C3_MultiOnlyLast ==
    (pc = "done" /\ result.ok) =>
        \A i \in 1..(Len(result.val) - 1) : result.val[i].kind # "Multi"

C3_Witness ==
    /\ pc = "done"
    /\ result.ok
    /\ Len(result.val) >= 2
    /\ result.val[Len(result.val)].kind = "Multi"

\* C9: the span of every returned segment is exactly the range
\* [i, i + len) of its piece inside the haystack's span, whatever text
\* precedes it, and the spans of one successful call are pairwise disjoint
\* and increasing.
C9_SubspanExact ==
    (pc = "done" /\ result.ok) =>
        /\ \A k \in 1..Len(result.val) : result.val[k].span = PieceSpan(k)
        /\ \A i, j \in 1..Len(result.val) :
              i < j => result.val[i].span.hi <= result.val[j].span.lo

C9_Witness ==
    /\ pc = "done"
    /\ result.ok
    /\ \E i, j \in 1..Len(result.val) :
          /\ i < j
          /\ SliceText(string, Pieces[i]) = SliceText(string, Pieces[j])
          /\ result.val[j].span.lo > result.val[i].span.lo
    /\ span.lo > 0

-----------------------------------------------------------------------------
(* Properties of RoutePath::from_meta *)

\* from_meta ran both halves of a normalized template to the end.
Assembled == pc = "done" /\ path_res # None /\ query_res # None

\* C4: when both halves fail the report holds every diagnostic of the path
\* half followed by every diagnostic of the query half; when exactly one half
\* fails, exactly that half's diagnostics are reported; a RoutePath is
\* returned only when both halves succeed.
C4_JoinedReport ==
    Assembled =>
        /\ result.ok <=> (path_res.ok /\ query_res.ok)
        /\ (~path_res.ok /\ ~query_res.ok) =>
               Report(result) = path_res.diags \o query_res.diags
        /\ (~path_res.ok /\ query_res.ok) => Report(result) = path_res.diags
        /\ (path_res.ok /\ ~query_res.ok) => Report(result) = query_res.diags
        /\ result.ok =>
               /\ result.val.path = path_res.val
               /\ result.val.query = query_res.val

C4_Witness ==
    /\ Assembled
    /\ ~path_res.ok
    /\ ~query_res.ok
    /\ query_res.diags[1].msg # EmptyQueryMsg
    /\ Len(Report(result)) >= 3

QuerySpan ==
    MkSpan(value_span.lo + Len(origin.path) + 2,
           value_span.lo + Len(origin.path) + 2 + Len(origin.query.some))

QueryCalls == { k \in 1..Len(calls) : calls[k].source = "Query" }

\* C5: a query that starts with '&', ends with '&' or contains "&&" gets the
\* single diagnostic "query cannot contain empty segments" and parse_segments
\* is never called on it; every other query is split on '&' with provenance
\* Query.
C5_StructuralReject ==
    (Assembled /\ origin.query # None) =>
        LET q == origin.query.some
        IN  IF \/ StartsWith(q, << "&" >>)
               \/ EndsWith(q, << "&" >>)
               \/ Contains(q, << "&", "&" >>)
            THEN /\ ~query_res.ok
                 /\ Len(query_res.diags) = 1
                 /\ query_res.diags[1].msg = EmptyQueryMsg
                 /\ query_res.diags[1].span = QuerySpan
                 /\ QueryCalls = {}
            ELSE /\ Cardinality(QueryCalls) = 1
                 /\ \A k \in QueryCalls :
                       calls[k] = [string |-> q, sep |-> "&", source |-> "Query",
                                   span |-> QuerySpan]
                 /\ \A n \in 1..(IF query_res.ok THEN 0 ELSE Len(query_res.diags)) :
                       query_res.diags[n].msg # EmptyQueryMsg

C5_Witness ==
    /\ Assembled
    /\ origin.query # None
    /\ Contains(origin.query.some, << "&", "&" >>)
    /\ ~EndsWith(origin.query.some, << "&" >>)
    /\ ~StartsWith(origin.query.some, << "&" >>)
    /\ ~query_res.ok
    /\ QueryCalls = {}

Names(segs) == [k \in 1..Len(segs) |-> segs[k].name]

\* A segment written back as template text.
Render(seg) ==
    CASE seg.kind = "Static" -> seg.name
      [] seg.kind = "Single" -> << "<" >> \o seg.name \o << ">" >>
      [] seg.kind = "Multi"  -> << "<" >> \o seg.name \o << ".", ".", ">" >>

Rendered(segs) == [k \in 1..Len(segs) |-> Render(segs[k])]

\* C7 as stated: the names of the segments joined with the separator give
\* back the path text and the query text.
C7_NamesRoundTrip ==
    (Assembled /\ result.ok) =>
        /\ Join(Names(result.val.path), "/") = origin.path
        /\ origin.query # None =>
              Join(Names(result.val.query.some), "&") = origin.query.some

\* C7 amended: the segments written back by kind (name, <name>, <name..>)
\* and joined with the separator give back the query text, and the path text
\* after its leading '/'.
C7_RenderedRoundTrip ==
    (Assembled /\ result.ok) =>
        /\ << "/" >> \o Join(Rendered(result.val.path), "/") = origin.path
        /\ origin.query # None =>
              Join(Rendered(result.val.query.some), "&") = origin.query.some

C7_Witness ==
    /\ Assembled
    /\ result.ok
    /\ Len(result.val.path) >= 2
    /\ \E k \in 1..Len(result.val.path) : result.val.path[k].kind = "Single"
    /\ origin.query # None
    /\ Len(result.val.query.some) >= 2
    /\ \E k \in 1..Len(result.val.query.some) :
          result.val.query.some[k].kind = "Multi"

NoEmptyPiece(s, c) == \A k \in 1..Len(Split(s, c)) : Split(s, c)[k].len > 0

\* C10 as stated: no query passed to parse_segments has an empty piece when
\* split on '&'.
C10_NoEmptyQueryPiece ==
    \A k \in QueryCalls : NoEmptyPiece(calls[k].string, "&")

\* C10 amended: no non-empty query passed to parse_segments has an empty
\* piece when split on '&'; the empty query is passed on, as one empty piece.
C10_NoEmptyPieceUnlessEmptyQuery ==
    \A k \in QueryCalls :
        IF calls[k].string = << >>
        THEN Len(Split(calls[k].string, "&")) = 1
        ELSE NoEmptyPiece(calls[k].string, "&")

C10_Witness ==
    \E k \in QueryCalls :
        /\ Len(Split(calls[k].string, "&")) >= 2
        /\ pc = "query_loop"

-----------------------------------------------------------------------------
(* Properties of the pure functions *)

\* C6: two segments compare equal and hash identically if and only if their
\* names match, whatever their kind, provenance, span or index.
C6_NameIdentity ==
    (pc = "done" /\ fn_out # None) =>
        /\ (fn_out.eq /\ fn_out.hash_a = fn_out.hash_b)
              <=> (fn_in.a.name = fn_in.b.name)
        /\ fn_in.a.name # fn_in.b.name => ~fn_out.eq

C6_Witness ==
    /\ pc = "done"
    /\ fn_out # None
    /\ fn_in.a.name = fn_in.b.name
    /\ fn_in.a.kind # fn_in.b.kind
    /\ fn_in.a.source # fn_in.b.source
    /\ fn_in.a.span # fn_in.b.span
    /\ fn_out.eq
    /\ fn_out.hash_a = fn_out.hash_b

\* C8 as stated: trailspan runs from the needle's own first byte to the end
\* of the haystack, at any offset.
C8_TrailFromNeedle ==
    (pc = "done" /\ fn_out # None) =>
        fn_out.trail = MkSpan(fn_in.span.lo + fn_in.needle.off, fn_in.span.hi)

\* C8 amended: trailspan runs to the end of the haystack from the needle's
\* first byte when the needle starts the haystack, and from the byte before
\* the needle (the separator) when the needle starts at an offset > 0.
C8_TrailFromSeparator ==
    (pc = "done" /\ fn_out # None) =>
        fn_out.trail =
            MkSpan(fn_in.span.lo
                     + (IF fn_in.needle.off > 0 THEN fn_in.needle.off - 1 ELSE 0),
                   fn_in.span.hi)

C8_Witness ==
    /\ pc = "done"
    /\ fn_out # None
    /\ fn_in.needle.off > 1
    /\ fn_in.needle.len > 0
    /\ fn_in.haystack[fn_in.needle.off] = "/"
    /\ fn_out.trail.lo = fn_in.span.lo + fn_in.needle.off - 1

====
